---- MODULE Spec2Model ----
(***************************************************************************)
(* Model of the moving-average indicator and backtest engine of            *)
(* src/MovingAverage/SMA.py and src/MovingAverage/EMA.py.                  *)
(*                                                                         *)
(* A table (pandas DataFrame) is a function from column names to series    *)
(* of equal length.  A column name is a pair <<name, window>>, so that the *)
(* f-string names 'SMA_<w>' and 'EMA_<w>' can be built; plain columns      *)
(* carry window 0.                                                         *)
(*                                                                         *)
(* Numbers are exact rationals <<n, d>> in lowest terms with d > 0; the    *)
(* float NaN ("undefined") is <<0, 0>>.  Floating-point rounding is not    *)
(* modelled.  Arithmetic propagates NaN and every comparison with NaN is   *)
(* false except "!=", as in IEEE 754 / numpy.                              *)
(*                                                                         *)
(* The chained mask assignment  data['Signal'][mask] = 1  is modelled as   *)
(* writing through to the table's column, its behaviour without pandas'    *)
(* copy-on-write mode (pandas < 3), which the code is written against.     *)
(***************************************************************************)
EXTENDS Integers, Sequences, FiniteSets, TLC

\* ------------------------------------------------------------- bounds

\* Longest price series explored.
MaxLen == 3
\* Largest window / span / period explored.
MaxWin == 2
\* Close prices and caller-supplied reference levels; doubling prices
\* make equal returns on successive days possible.
Prices == {1, 2, 4}
\* Values of caller-supplied MACD / signal lines.
Levels == {-1, 0, 1}

\* ------------------------------------------------------------ numbers

NaN == <<0, 0>>
IsNaN(a) == a[2] = 0

Abs(n) == IF n < 0 THEN -n ELSE n

RECURSIVE GCD(_, _)
GCD(a, b) == IF b = 0 THEN a ELSE GCD(b, a % b)

\* n/d in lowest terms, d # 0.
Frac(n, d) ==
    LET g == GCD(Abs(n), Abs(d))
        s == IF d < 0 THEN -1 ELSE 1
    IN  <<(s * n) \div g, (s * d) \div g>>

R(n) == <<n, 1>>

RAdd(a, b) == IF IsNaN(a) \/ IsNaN(b) THEN NaN
              ELSE Frac(a[1] * b[2] + b[1] * a[2], a[2] * b[2])
RSub(a, b) == IF IsNaN(a) \/ IsNaN(b) THEN NaN
              ELSE Frac(a[1] * b[2] - b[1] * a[2], a[2] * b[2])
RMul(a, b) == IF IsNaN(a) \/ IsNaN(b) THEN NaN
              ELSE Frac(a[1] * b[1], a[2] * b[2])
\* The divisor is never zero where the code divides floats: prices are
\* positive and observation counts are checked first.
RDiv(a, b) == IF IsNaN(a) \/ IsNaN(b) THEN NaN
              ELSE Frac(a[1] * b[2], a[2] * b[1])

RGt(a, b) == ~IsNaN(a) /\ ~IsNaN(b) /\ a[1] * b[2] > b[1] * a[2]
RLt(a, b) == ~IsNaN(a) /\ ~IsNaN(b) /\ a[1] * b[2] < b[1] * a[2]
RGe(a, b) == ~IsNaN(a) /\ ~IsNaN(b) /\ a[1] * b[2] >= b[1] * a[2]
RLe(a, b) == ~IsNaN(a) /\ ~IsNaN(b) /\ a[1] * b[2] <= b[1] * a[2]
REq(a, b) == ~IsNaN(a) /\ ~IsNaN(b) /\ a = b
RNe(a, b) == ~REq(a, b)

\* ------------------------------------------------------------- series

\* Series.shift(1): every value moves one place down, the first is NaN.
Shift1(s) == [i \in 1..Len(s) |-> IF i = 1 THEN NaN ELSE s[i - 1]]

\* Series.diff(): s - s.shift(1).
Diff(s) == [i \in 1..Len(s) |-> RSub(s[i], Shift1(s)[i])]

\* Series.pct_change(): s / s.shift(1) - 1 (prices are defined, so the
\* forward fill of missing values changes nothing).
PctChange(s) ==
    [i \in 1..Len(s) |-> RSub(RDiv(s[i], Shift1(s)[i]), R(1))]

\* Element-wise product and difference of two series.
SMul(a, b) == [i \in 1..Len(a) |-> RMul(a[i], b[i])]
SSub(a, b) == [i \in 1..Len(a) |-> RSub(a[i], b[i])]

\* rolling(window, min_periods).mean(): pandas keeps a running sum and a
\* running count of the observations in the window, adding the value that
\* enters and removing the one that leaves (NaN values are not counted).
RECURSIVE RollSum(_, _, _)
RollSum(x, w, i) ==
    IF i = 0 THEN R(0)
    ELSE LET added == IF IsNaN(x[i]) THEN RollSum(x, w, i - 1)
                      ELSE RAdd(RollSum(x, w, i - 1), x[i])
         IN  IF i > w /\ ~IsNaN(x[i - w]) THEN RSub(added, x[i - w])
             ELSE added

RECURSIVE RollObs(_, _, _)
RollObs(x, w, i) ==
    IF i = 0 THEN 0
    ELSE RollObs(x, w, i - 1)
         + (IF IsNaN(x[i]) THEN 0 ELSE 1)
         - (IF i > w /\ ~IsNaN(x[i - w]) THEN 1 ELSE 0)

\* Fault variant: the window sum divided by the window length instead of
\* the number of observations in the window.
RollingMeanFixedDivisor(x, w, minp) ==
    [i \in 1..Len(x) |->
        IF RollObs(x, w, i) >= minp /\ RollObs(x, w, i) > 0
        THEN RDiv(RollSum(x, w, i), R(w))
        ELSE NaN]
RollingMean(x, w, minp) ==
    [i \in 1..Len(x) |->
        IF RollObs(x, w, i) >= minp /\ RollObs(x, w, i) > 0
        THEN RDiv(RollSum(x, w, i), R(RollObs(x, w, i)))
        ELSE NaN]

\* Fault variant: min_periods left at its default, the window.
calculate_smaFullWindowOnly(prices, window) == RollingMean(prices, window, window)
\* SMA.py:7-18  rolling(window=window, min_periods=1).mean()
calculate_sma(prices, window) == RollingMean(prices, window, 1)

\* Fault variant: the window taken as centre of mass, alpha = 1 / (1 + com).
SpanAlphaAsCom(span) == Frac(1, span + 1)
\* ewm(span=...): alpha = 2 / (span + 1).
SpanAlpha(span) == Frac(2, span + 1)

\* ewm(adjust=False).mean(): pandas carries the weighted average and the
\* weight of the old average; each observation decays the old weight by
\* 1 - alpha, enters with weight alpha, and the weights are renormalised.
\* A NaN input keeps the average and only decays the old weight.
RECURSIVE EwmState(_, _, _)
EwmState(x, alpha, i) ==
    IF i = 1 THEN [weighted |-> x[1], old_wt |-> R(1)]
    ELSE LET prev == EwmState(x, alpha, i - 1)
             cur  == x[i]
             decayed == RMul(prev.old_wt, RSub(R(1), alpha))
         IN  IF ~IsNaN(prev.weighted)
             THEN IF ~IsNaN(cur)
                  THEN [weighted |->
                           RDiv(RAdd(RMul(decayed, prev.weighted),
                                     RMul(alpha, cur)),
                                RAdd(decayed, alpha)),
                        old_wt |-> R(1)]
                  ELSE [weighted |-> prev.weighted, old_wt |-> decayed]
             ELSE [weighted |-> cur, old_wt |-> prev.old_wt]

EwmMean(x, alpha) == [i \in 1..Len(x) |-> EwmState(x, alpha, i).weighted]

\* EMA.py:5-16  ewm(span=window, adjust=False).mean()
calculate_ema(prices, window) == EwmMean(prices, SpanAlpha(window))

\* ------------------------------------------------------------- tables

Col(name) == <<name, 0>>
SMACol(w) == <<"SMA_", w>>
EMACol(w) == <<"EMA_", w>>

\* Number of rows (every table has at least one column).
NRows(t) == Len(t[CHOOSE c \in DOMAIN t : TRUE])

\* t[c] = s : adds or replaces column c.
SetCol(t, c, s) == [k \in DOMAIN t \cup {c} |-> IF k = c THEN s ELSE t[k]]

\* A scalar broadcast over the index.
Const(t, v) == [i \in 1..NRows(t) |-> v]

\* --------------------------------------------------- indicator engine

\* SMA.py:31-36  result = data.copy(); one 'SMA_<w>' column per window.
RECURSIVE calculate_multiple_sma(_, _)
calculate_multiple_sma(d, windows) ==
    IF windows = << >> THEN d
    ELSE LET front == SubSeq(windows, 1, Len(windows) - 1)
             w     == windows[Len(windows)]
         IN  SetCol(calculate_multiple_sma(d, front), SMACol(w),
                    calculate_sma(d[Col("Close")], w))

\* EMA.py:29-34  result = data.copy(); one 'EMA_<w>' column per window.
RECURSIVE calculate_multiple_ema(_, _)
calculate_multiple_ema(d, windows) ==
    IF windows = << >> THEN d
    ELSE LET front == SubSeq(windows, 1, Len(windows) - 1)
             w     == windows[Len(windows)]
         IN  SetCol(calculate_multiple_ema(d, front), EMACol(w),
                    calculate_ema(d[Col("Close")], w))

\* EMA.py:49-62
calculate_macd(d, fast_period, slow_period, signal_period) ==
    LET ema_fast == calculate_ema(d[Col("Close")], fast_period)
        ema_slow == calculate_ema(d[Col("Close")], slow_period)
        r1 == SetCol(d, Col("MACD"), SSub(ema_fast, ema_slow))
        r2 == SetCol(r1, Col("MACD_Signal"),
                     calculate_ema(r1[Col("MACD")], signal_period))
    IN  SetCol(r2, Col("MACD_Histogram"),
               SSub(r2[Col("MACD")], r2[Col("MACD_Signal")]))

\* --------------------------------------------------- signal detector

\* t[c][mask] = v : the masked rows of column c are overwritten.
MaskAssign(t, c, mask, v) ==
    SetCol(t, c, [i \in 1..NRows(t) |-> IF mask[i] THEN v ELSE t[c][i]])

\* Fault variant: the first mask taken with >= .
SignalColumnGe(t, sig, a, b) ==
    LET t0 == SetCol(t, sig, Const(t, R(0)))
        t1 == MaskAssign(t0, sig, [i \in 1..NRows(t) |-> RGe(t0[a][i], t0[b][i])], R(1))
    IN  MaskAssign(t1, sig, [i \in 1..NRows(t) |-> RLt(t1[a][i], t1[b][i])], R(-1))
\* SMA.py:53-55, EMA.py:79-81, 262-264, 266-268: column sig is set to 0,
\* then to 1 where a > b, then to -1 where a < b.
SignalColumn(t, sig, a, b) ==
    LET t0 == SetCol(t, sig, Const(t, R(0)))
        t1 == MaskAssign(t0, sig, [i \in 1..NRows(t) |-> RGt(t0[a][i], t0[b][i])], R(1))
    IN  MaskAssign(t1, sig, [i \in 1..NRows(t) |-> RLt(t1[a][i], t1[b][i])], R(-1))

\* Fault variant: any rise or fall of the signal counts as a cross.
CrossColumnsAnyRise(t, sig, pos, golden, death) ==
    LET t1 == SetCol(t, pos, Diff(t[sig]))
        t2 == SetCol(t1, golden, [i \in 1..NRows(t) |-> RGt(t1[pos][i], R(0))])
    IN  SetCol(t2, death, [i \in 1..NRows(t) |-> RLt(t2[pos][i], R(0))])
\* SMA.py:58-60, EMA.py:84-86: the first difference of the signal, and
\* the flags where it is exactly 2 and exactly -2.
CrossColumns(t, sig, pos, golden, death) ==
    LET t1 == SetCol(t, pos, Diff(t[sig]))
        t2 == SetCol(t1, golden, [i \in 1..NRows(t) |-> REq(t1[pos][i], R(2))])
    IN  SetCol(t2, death, [i \in 1..NRows(t) |-> REq(t2[pos][i], R(-2))])

\* SMA.py:50-62
detect_crossover_signals(d, short_sma, long_sma) ==
    CrossColumns(SignalColumn(d, Col("Signal"), short_sma, long_sma),
                 Col("Signal"), Col("Position"),
                 Col("Golden_Cross"), Col("Death_Cross"))

\* EMA.py:76-88
detect_ema_crossover_signals(d, short_ema, long_ema) ==
    CrossColumns(SignalColumn(d, Col("EMA_Signal"), short_ema, long_ema),
                 Col("EMA_Signal"), Col("EMA_Position"),
                 Col("EMA_Golden_Cross"), Col("EMA_Death_Cross"))

\* Fault variant: the shifted lines filled with 0 at the first index.
detect_macd_signalsZeroFilled(d) ==
    LET n    == NRows(d)
        line == d[Col("MACD")]
        sigl == d[Col("MACD_Signal")]
        prev(s) == [i \in 1..n |-> IF i = 1 THEN R(0) ELSE s[i - 1]]
        t1 == SetCol(d, Col("MACD_Buy_Signal"),
                [i \in 1..n |-> RGt(line[i], sigl[i])
                                /\ RLe(prev(line)[i], prev(sigl)[i])])
        t2 == SetCol(t1, Col("MACD_Sell_Signal"),
                [i \in 1..n |-> RLt(line[i], sigl[i])
                                /\ RGe(prev(line)[i], prev(sigl)[i])])
        t3 == SetCol(t2, Col("MACD_Zero_Cross_Up"),
                [i \in 1..n |-> RGt(line[i], R(0))
                                /\ RLe(prev(line)[i], R(0))])
    IN  SetCol(t3, Col("MACD_Zero_Cross_Down"),
                [i \in 1..n |-> RLt(line[i], R(0))
                                /\ RGe(prev(line)[i], R(0))])
\* EMA.py:100-110
detect_macd_signals(d) ==
    LET n    == NRows(d)
        line == d[Col("MACD")]
        sigl == d[Col("MACD_Signal")]
        t1 == SetCol(d, Col("MACD_Buy_Signal"),
                [i \in 1..n |-> RGt(line[i], sigl[i])
                                /\ RLe(Shift1(line)[i], Shift1(sigl)[i])])
        t2 == SetCol(t1, Col("MACD_Sell_Signal"),
                [i \in 1..n |-> RLt(line[i], sigl[i])
                                /\ RGe(Shift1(line)[i], Shift1(sigl)[i])])
        t3 == SetCol(t2, Col("MACD_Zero_Cross_Up"),
                [i \in 1..n |-> RGt(line[i], R(0))
                                /\ RLe(Shift1(line)[i], R(0))])
    IN  SetCol(t3, Col("MACD_Zero_Cross_Down"),
                [i \in 1..n |-> RLt(line[i], R(0))
                                /\ RGe(Shift1(line)[i], R(0))])

\* ----------------------------------------------- performance analyzer

\* Trading days per year used to annualise (252 ** 0.5, * 252).
TradingDays == 252

\* Number of TRUE rows of a boolean column: Series.sum(), len(t[mask]).
Count(mask) == Cardinality({i \in DOMAIN mask : mask[i]})

\* The defined (non-NaN) positions of a series.
Defined(s) == {i \in DOMAIN s : ~IsNaN(s[i])}

RECURSIVE RProd(_, _)
RProd(s, I) ==
    IF I = {} THEN R(1)
    ELSE LET i == CHOOSE j \in I : TRUE
         IN  RMul(s[i], RProd(s, I \ {i}))

RECURSIVE RSum(_, _)
RSum(s, I) ==
    IF I = {} THEN R(0)
    ELSE LET i == CHOOSE j \in I : TRUE
         IN  RAdd(s[i], RSum(s, I \ {i}))

\* Series.cumprod(): NaN rows are skipped by the running product and stay
\* NaN in the result.
CumProd(s) ==
    [i \in 1..Len(s) |->
        IF IsNaN(s[i]) THEN NaN ELSE RProd(s, {j \in Defined(s) : j <= i})]

\* (1 + returns).cumprod().iloc[-1] - 1 of a non-empty series.
TotalReturn(returns) ==
    LET growth == [i \in 1..Len(returns) |-> RAdd(R(1), returns[i])]
    IN  RSub(CumProd(growth)[Len(returns)], R(1))

\* Series.std() squared: the sample variance (ddof = 1) of the defined
\* values, NaN when there are fewer than two of them.
Variance(s) ==
    LET I    == Defined(s)
        cnt  == Cardinality(I)
        mean == RDiv(RSum(s, I), R(cnt))
        sq   == [i \in DOMAIN s |-> RMul(RSub(s[i], mean), RSub(s[i], mean))]
    IN  IF cnt <= 1 THEN NaN ELSE RDiv(RSum(sq, I), R(cnt - 1))

\* s.std() * (252 ** 0.5), kept as its square (the root is irrational):
\* the volatility is 0, NaN or defined exactly when its square is.
VolatilitySq(s) == RMul(Variance(s), R(TradingDays))

\* (ret * 252) / volatility if volatility != 0 else 0.  A quotient
\* num / sqrt(volsq) is kept as the pair of num and volsq.
SharpeZero == [num |-> R(0), volsq |-> R(1)]
Sharpe(total, volsq) ==
    IF RNe(volsq, R(0))
    THEN [num |-> RMul(total, R(TradingDays)), volsq |-> volsq]
    ELSE SharpeZero

\* The value of a Sharpe quotient: NaN, zero, or another number.
SharpeIsNaN(q) == IsNaN(q.num) \/ IsNaN(q.volsq)
SharpeIsZero(q) == ~SharpeIsNaN(q) /\ q.num = R(0) /\ q.volsq # R(0)

\* Fault variant: the signal applied to the return of its own day.
StrategyReturnsSameDay(close, signal) == SMul(signal, PctChange(close))
\* SMA.py:98-99, EMA.py:149-150, 271-273: the signal of the day before
\* times the day's return.
StrategyReturns(close, signal) == SMul(Shift1(signal), PctChange(close))

\* len(t[r > 0]): the rows with a return above 0.
Wins(r) == Count([i \in DOMAIN r |-> RGt(r[i], R(0))])
\* The rows with a defined return other than 0.
NonZeroDefinedOnly(r) == Count([i \in DOMAIN r |-> ~IsNaN(r[i]) /\ RNe(r[i], R(0))])
\* len(t[r != 0]): a NaN row satisfies r != 0 and is counted.
NonZero(r) == Count([i \in DOMAIN r |-> RNe(r[i], R(0))])

\* What a call hands back: a table, a report, or an exception.
Returned(kind, value) == [kind |-> kind, value |-> value]

\* SMA.py:95-99  signals_data at the return of analyze_sma_performance.
sma_signals_data(d, short_sma, long_sma) ==
    LET t0 == detect_crossover_signals(d, short_sma, long_sma)
        t1 == SetCol(t0, Col("Returns"), PctChange(t0[Col("Close")]))
    IN  SetCol(t1, Col("Strategy_Returns"),
               StrategyReturns(t1[Col("Close")], t1[Col("Signal")]))

\* SMA.py:101-115  the metrics computed from signals_data; .iloc[-1] of
\* an empty series raises IndexError, a division by a zero count
\* ZeroDivisionError.
sma_report(sd) ==
    LET n  == NRows(sd)
        sr == sd[Col("Strategy_Returns")]
    IN  IF n = 0 THEN Returned("raise", "IndexError")
        ELSE IF NonZero(sr) = 0 THEN Returned("raise", "ZeroDivisionError")
        ELSE Returned("report",
               [total_return    |-> TotalReturn(sr),
                buy_hold_return |-> RSub(RDiv(sd[Col("Close")][n], sd[Col("Close")][1]), R(1)),
                golden_crosses  |-> Count(sd[Col("Golden_Cross")]),
                death_crosses   |-> Count(sd[Col("Death_Cross")]),
                win_rate        |-> Frac(Wins(sr), NonZero(sr))])

\* SMA.py:83-115
analyze_sma_performance(d, short_sma, long_sma) ==
    sma_report(sma_signals_data(d, short_sma, long_sma))

\* EMA.py:146-150  signals_data at the return of analyze_ema_performance.
ema_signals_data(d, short_ema, long_ema) ==
    LET t0 == detect_ema_crossover_signals(d, short_ema, long_ema)
        t1 == SetCol(t0, Col("Returns"), PctChange(t0[Col("Close")]))
    IN  SetCol(t1, Col("EMA_Strategy_Returns"),
               StrategyReturns(t1[Col("Close")], t1[Col("EMA_Signal")]))

\* EMA.py:152-178  the metrics computed from signals_data.
ema_report(sd) ==
    LET n  == NRows(sd)
        sr == sd[Col("EMA_Strategy_Returns")]
        total_return    == TotalReturn(sr)
        buy_hold_return == RSub(RDiv(sd[Col("Close")][n], sd[Col("Close")][1]), R(1))
        strategy_volatility_sq == VolatilitySq(sr)
        buy_hold_volatility_sq == VolatilitySq(sd[Col("Returns")])
    IN  IF n = 0 THEN Returned("raise", "IndexError")
        ELSE Returned("report",
               [total_return    |-> total_return,
                buy_hold_return |-> buy_hold_return,
                golden_crosses  |-> Count(sd[Col("EMA_Golden_Cross")]),
                death_crosses   |-> Count(sd[Col("EMA_Death_Cross")]),
                strategy_volatility_sq |-> strategy_volatility_sq,
                buy_hold_volatility_sq |-> buy_hold_volatility_sq,
                strategy_sharpe |-> Sharpe(total_return, strategy_volatility_sq),
                buy_hold_sharpe |-> Sharpe(buy_hold_return, buy_hold_volatility_sq),
                win_rate        |-> IF NonZero(sr) > 0
                                    THEN Frac(Wins(sr), NonZero(sr))
                                    ELSE R(0)])

\* EMA.py:134-178
analyze_ema_performance(d, short_ema, long_ema) ==
    ema_report(ema_signals_data(d, short_ema, long_ema))

\* ------------------------------------------------- comparison harness

\* EMA.py:258-273  the caller's table after compare_ema_vs_sma has
\* written its columns into it (the function takes no copy).
compare_frame(d, ema_window, sma_window) ==
    LET t1 == SetCol(d, EMACol(ema_window),
                     calculate_ema(d[Col("Close")], ema_window))
        t2 == SetCol(t1, SMACol(sma_window),
                     RollingMean(t1[Col("Close")], sma_window, sma_window))
        t3 == SignalColumn(t2, Col("EMA_Signal"), Col("Close"), EMACol(ema_window))
        t4 == SignalColumn(t3, Col("SMA_Signal"), Col("Close"), SMACol(sma_window))
        t5 == SetCol(t4, Col("Returns"), PctChange(t4[Col("Close")]))
        t6 == SetCol(t5, Col("EMA_Returns"),
                     StrategyReturns(t5[Col("Close")], t5[Col("EMA_Signal")]))
    IN  SetCol(t6, Col("SMA_Returns"),
               StrategyReturns(t6[Col("Close")], t6[Col("SMA_Signal")]))

\* EMA.py:275-288  the comparison computed from the table.
compare_report(t) ==
    IF NRows(t) = 0 THEN Returned("raise", "IndexError")
    ELSE Returned("report",
           [EMA_Return |-> TotalReturn(t[Col("EMA_Returns")]),
            SMA_Return |-> TotalReturn(t[Col("SMA_Returns")]),
            EMA_Volatility_sq |-> VolatilitySq(t[Col("EMA_Returns")]),
            SMA_Volatility_sq |-> VolatilitySq(t[Col("SMA_Returns")]),
            EMA_Wins |-> Wins(t[Col("EMA_Returns")]),
            SMA_Wins |-> Wins(t[Col("SMA_Returns")])])

\* EMA.py:245-288
compare_ema_vs_sma(d, ema_window, sma_window) ==
    compare_report(compare_frame(d, ema_window, sma_window))

\* -------------------------------------------------------------- state

\* data  : the caller's table
\* op    : the operation that ran last ("load" before any)
\* args  : its arguments
\* ret   : what it returned (Returned(kind, value))
\* frame : the table the operation worked on, as it is at the return
\*         (the copy it returns, its local signals_data, or for
\*         compare_ema_vs_sma the caller's table itself)
\* pc    : the caller's position: "loaded", "with_indicators" once it
\*         passes on a table of indicator columns, "compared" once
\*         compare_ema_vs_sma has run on its table
VARIABLES data, op, args, ret, frame, pc

vars == <<data, op, args, ret, frame, pc>>

\* All series of length n over the integers S.
SeriesOver(S, n) == {[i \in 1..n |-> R(f[i])] : f \in [1..n -> S]}

\* Price tables as the data provider returns them (only Close is read).
PriceTables ==
    UNION {{(Col("Close") :> p) : p \in SeriesOver(Prices, n)} : n \in 0..MaxLen}

\* Price tables with a caller-supplied flat reference line (a price level
\* the close is compared with).
RefTables ==
    UNION {{(Col("Close") :> p) @@ (Col("Ref") :> [i \in 1..n |-> R(v)]) :
              p \in SeriesOver(Prices, n), v \in Prices} :
           n \in 0..MaxLen}

\* Tables with caller-supplied MACD and signal lines.
LineTables ==
    UNION {{(Col("MACD") :> a) @@ (Col("MACD_Signal") :> b) :
              a \in SeriesOver(Levels, n), b \in SeriesOver(Levels, n)} :
           n \in 0..MaxLen}

\* Window lists, spans and periods passed by the caller.
Windows == 1..MaxWin
WindowLists ==
    {<<a>> : a \in Windows}
    \cup {<<q[1], q[2]>> : q \in {r \in Windows \X Windows : r[1] < r[2]}}

\* Columns a caller names as short / long line, and the pairs of them.
LineNames == {"Close", "Ref", "SMA_", "EMA_", "MACD", "MACD_Signal"}
Lines(t) == {c \in DOMAIN t : c[1] \in LineNames}
LinePairs(t) == {q \in Lines(t) \X Lines(t) : q[1] # q[2]}

NoArgs == [none |-> TRUE]
Nothing == Returned("none", "none")

Init ==
    /\ data \in PriceTables \cup RefTables \cup LineTables
    /\ op = "load"
    /\ args = NoArgs
    /\ ret = Nothing
    /\ frame = data
    /\ pc = "loaded"

HasClose == Col("Close") \in DOMAIN data

\* The caller is between calls.
Idle == op = "load"

\* A call that works on a copy: the caller's table stays as it is.
Call(name, a, r, f) ==
    /\ Idle
    /\ pc # "compared"
    /\ op' = name
    /\ args' = a
    /\ ret' = r
    /\ frame' = f
    /\ UNCHANGED <<data, pc>>

CalculateMultipleSMA ==
    \E windows \in WindowLists :
        /\ HasClose
        /\ LET t == calculate_multiple_sma(data, windows)
           IN  Call("calculate_multiple_sma", [windows |-> windows],
                    Returned("table", t), t)

CalculateMultipleEMA ==
    \E windows \in WindowLists :
        /\ HasClose
        /\ LET t == calculate_multiple_ema(data, windows)
           IN  Call("calculate_multiple_ema", [windows |-> windows],
                    Returned("table", t), t)

CalculateMACD ==
    \E fast \in Windows, slow \in Windows, signal \in Windows :
        /\ HasClose
        /\ fast < slow
        /\ LET t == calculate_macd(data, fast, slow, signal)
           IN  Call("calculate_macd",
                    [fast |-> fast, slow |-> slow, signal |-> signal],
                    Returned("table", t), t)

DetectCrossoverSignals ==
    \E q \in LinePairs(data) :
        LET t == detect_crossover_signals(data, q[1], q[2])
        IN  Call("detect_crossover_signals", [short |-> q[1], long |-> q[2]],
                 Returned("table", t), t)

DetectEMACrossoverSignals ==
    \E q \in LinePairs(data) :
        LET t == detect_ema_crossover_signals(data, q[1], q[2])
        IN  Call("detect_ema_crossover_signals", [short |-> q[1], long |-> q[2]],
                 Returned("table", t), t)

DetectMACDSignals ==
    /\ {Col("MACD"), Col("MACD_Signal")} \subseteq DOMAIN data
    /\ LET t == detect_macd_signals(data)
       IN  Call("detect_macd_signals", NoArgs, Returned("table", t), t)

AnalyzeSMAPerformance ==
    \E q \in LinePairs(data) :
        /\ HasClose
        /\ LET sd == sma_signals_data(data, q[1], q[2])
           IN  Call("analyze_sma_performance", [short |-> q[1], long |-> q[2]],
                    sma_report(sd), sd)

AnalyzeEMAPerformance ==
    \E q \in LinePairs(data) :
        /\ HasClose
        /\ LET sd == ema_signals_data(data, q[1], q[2])
           IN  Call("analyze_ema_performance", [short |-> q[1], long |-> q[2]],
                    ema_report(sd), sd)

\* EMA.py:245-288: compare_ema_vs_sma writes its columns into the table
\* it is given.  As at EMA.py:331 it is called on a table as loaded.
CompareEMAvsSMA ==
    \E ema_window \in Windows, sma_window \in Windows :
        /\ HasClose
        /\ Idle
        /\ pc = "loaded"
        /\ op' = "compare_ema_vs_sma"
        /\ args' = [ema_window |-> ema_window, sma_window |-> sma_window]
        /\ data' = compare_frame(data, ema_window, sma_window)
        /\ ret' = compare_report(data')
        /\ frame' = data'
        /\ pc' = "compared"

\* SMA.py:180-186, EMA.py:307-319: the caller passes the table of
\* indicator columns it got for its raw price table on to the next call.
PassIndicators ==
    /\ pc = "loaded"
    /\ DOMAIN data = {Col("Close")}
    /\ op \in {"calculate_multiple_sma", "calculate_multiple_ema", "calculate_macd"}
    /\ ret.kind = "table"
    /\ data' = ret.value
    /\ pc' = "with_indicators"
    /\ op' = "load"
    /\ args' = NoArgs
    /\ ret' = Nothing
    /\ frame' = data'

\* The caller drops what the call returned and is ready for the next call.
Discard ==
    /\ ~Idle
    /\ pc # "compared"
    /\ op' = "load"
    /\ args' = NoArgs
    /\ ret' = Nothing
    /\ frame' = data
    /\ UNCHANGED <<data, pc>>

Next ==
    \/ CalculateMultipleSMA
    \/ CalculateMultipleEMA
    \/ CalculateMACD
    \/ DetectCrossoverSignals
    \/ DetectEMACrossoverSignals
    \/ DetectMACDSignals
    \/ AnalyzeSMAPerformance
    \/ AnalyzeEMAPerformance
    \/ CompareEMAvsSMA
    \/ PassIndicators
    \/ Discard

Spec == Init /\ [][Next]_vars

\* ------------------------------------------------------------- claims

Close == frame[Col("Close")]
N == NRows(frame)
IsReport == ret.kind = "report"

\* The arithmetic mean of x[lo..hi], summed directly.
WindowMean(x, lo, hi) == RDiv(RSum(x, lo..hi), R(hi - lo + 1))
Max(a, b) == IF a > b THEN a ELSE b

\* C1: every SMA_<w> column written by calculate_multiple_sma is as long as
\* the prices, is defined at every index, and at index i holds the mean of
\* the last min(i, w) prices ending at i.
C1_SmaIsTrailingMean ==
    op = "calculate_multiple_sma" =>
        \A k \in 1..Len(args.windows) :
            LET w   == args.windows[k]
                sma == frame[SMACol(w)]
            IN  /\ Len(sma) = Len(Close)
                /\ \A i \in 1..Len(Close) :
                      /\ ~IsNaN(sma[i])
                      /\ sma[i] = WindowMean(Close, Max(1, i - w + 1), i)

\* A window shorter than the series has slid past a price that differs
\* from the one that entered.
C1_Witness ==
    /\ op = "calculate_multiple_sma"
    /\ N = MaxLen
    /\ \E k \in 1..Len(args.windows) :
          /\ 1 < args.windows[k]
          /\ args.windows[k] < N
          /\ Close[1] # Close[N]
          /\ frame[SMACol(args.windows[k])][N] # frame[SMACol(args.windows[k])][N - 1]

\* ema follows the recursive rule from series x with span w.
FollowsRecursiveRule(ema, x, w) ==
    LET alpha == Frac(2, w + 1)
    IN  /\ Len(ema) = Len(x)
        /\ Len(x) >= 1 => ema[1] = x[1]
        /\ \A i \in 2..Len(x) :
              ema[i] = RAdd(RMul(alpha, x[i]),
                            RMul(RSub(R(1), alpha), ema[i - 1]))

\* C2: every EMA_<w> column written by calculate_multiple_ema is seeded by
\* the first price and follows ema[i] = alpha*p[i] + (1-alpha)*ema[i-1]
\* with alpha = 2/(w+1); MACD_Signal follows the same rule from the MACD
\* line with the signal period, seeded by the first MACD value.
C2_EmaIsRecursive ==
    /\ op = "calculate_multiple_ema" =>
          \A k \in 1..Len(args.windows) :
              FollowsRecursiveRule(frame[EMACol(args.windows[k])], Close,
                                   args.windows[k])
    /\ op = "calculate_macd" =>
          FollowsRecursiveRule(frame[Col("MACD_Signal")], frame[Col("MACD")],
                               args.signal)

\* A MACD line that moves, smoothed with a span above 1, so that the
\* signal line lags it.
C2_Witness ==
    /\ op = "calculate_macd"
    /\ N = MaxLen
    /\ args.signal > 1
    /\ frame[Col("MACD")][2] # frame[Col("MACD")][1]
    /\ frame[Col("MACD_Signal")][N] # frame[Col("MACD")][N]

\* The flags golden, death of table t are exactly the -1 -> +1 and
\* +1 -> -1 steps of its column sig.
FlagsAreFullFlips(t, sig, golden, death) ==
    \A i \in 1..NRows(t) :
        /\ t[golden][i] <=> (i >= 2 /\ t[sig][i - 1] = R(-1) /\ t[sig][i] = R(1))
        /\ t[death][i]  <=> (i >= 2 /\ t[sig][i - 1] = R(1) /\ t[sig][i] = R(-1))

\* C3: Golden_Cross is true at i exactly when i is not the first index and
\* the signal steps from -1 to +1 there, Death_Cross exactly when it steps
\* from +1 to -1; nothing fires at the first index or on a step into or
\* out of 0.
C3_CrossesAreFullFlips ==
    /\ op \in {"detect_crossover_signals", "analyze_sma_performance"} =>
          FlagsAreFullFlips(frame, Col("Signal"),
                            Col("Golden_Cross"), Col("Death_Cross"))
    /\ op \in {"detect_ema_crossover_signals", "analyze_ema_performance"} =>
          FlagsAreFullFlips(frame, Col("EMA_Signal"),
                            Col("EMA_Golden_Cross"), Col("EMA_Death_Cross"))

\* The signal goes -1 -> 0 -> +1 over two steps.
C3_Witness ==
    /\ op = "detect_crossover_signals"
    /\ N = 3
    /\ frame[Col("Signal")] = <<R(-1), R(0), R(1)>>
    /\ Count(frame[Col("Golden_Cross")]) = 0

\* sr is the lagged product of signal sig and the returns of close, and a
\* change of sig at one index k changes it at index k+1 only.
IsLagged(sr, close, sig) ==
    /\ Len(sr) = Len(close)
    /\ Len(close) >= 1 => IsNaN(sr[1])
    /\ \A i \in 2..Len(close) :
          sr[i] = RMul(sig[i - 1], RSub(RDiv(close[i], close[i - 1]), R(1)))
    /\ \A k \in 1..Len(close), v \in {-1, 0, 1} :
          LET other == StrategyReturns(close, [sig EXCEPT ![k] = R(v)])
          IN  \A i \in 1..Len(close) : i # k + 1 => other[i] = sr[i]

\* C4: strategy_returns[i] = signal[i-1] * (close[i]/close[i-1] - 1) for
\* every index after the first, where it is undefined; two runs on the
\* same prices whose signals differ at one index k agree on the strategy
\* returns everywhere but at k+1.
C4_OnePeriodLag ==
    /\ op = "analyze_sma_performance" =>
          IsLagged(frame[Col("Strategy_Returns")], Close, frame[Col("Signal")])
    /\ op = "analyze_ema_performance" =>
          IsLagged(frame[Col("EMA_Strategy_Returns")], Close, frame[Col("EMA_Signal")])
    /\ op = "compare_ema_vs_sma" =>
          /\ IsLagged(frame[Col("EMA_Returns")], Close, frame[Col("EMA_Signal")])
          /\ IsLagged(frame[Col("SMA_Returns")], Close, frame[Col("SMA_Signal")])

\* The signal changes on the last day and the day's price moves: the
\* last strategy return is that of the signal of the day before.
C4_Witness ==
    /\ op = "analyze_sma_performance"
    /\ N = MaxLen
    /\ frame[Col("Signal")][N - 1] = R(1)
    /\ frame[Col("Signal")][N] = R(-1)
    /\ RGt(frame[Col("Strategy_Returns")][N], R(0))

\* Column sig of table t is the sign of a - b, and 0 where a or b is
\* undefined.
IsSignOf(t, sig, a, b) ==
    /\ Len(t[sig]) = NRows(t)
    /\ \A i \in 1..NRows(t) :
          /\ t[sig][i] \in {R(-1), R(0), R(1)}
          /\ (~IsNaN(t[a][i]) /\ ~IsNaN(t[b][i]) /\ RGt(t[a][i], t[b][i]))
                => t[sig][i] = R(1)
          /\ (~IsNaN(t[a][i]) /\ ~IsNaN(t[b][i]) /\ RLt(t[a][i], t[b][i]))
                => t[sig][i] = R(-1)
          /\ (IsNaN(t[a][i]) \/ IsNaN(t[b][i]) \/ t[a][i] = t[b][i])
                => t[sig][i] = R(0)

\* C5: the signal column is +1 where the first line is above the second,
\* -1 where it is below, 0 where they are equal or one is undefined; it
\* is as long as the price series.
C5_SignalIsSign ==
    /\ op \in {"detect_crossover_signals", "analyze_sma_performance"} =>
          IsSignOf(frame, Col("Signal"), args.short, args.long)
    /\ op \in {"detect_ema_crossover_signals", "analyze_ema_performance"} =>
          IsSignOf(frame, Col("EMA_Signal"), args.short, args.long)
    /\ op = "compare_ema_vs_sma" =>
          /\ IsSignOf(frame, Col("EMA_Signal"), Col("Close"), EMACol(args.ema_window))
          /\ IsSignOf(frame, Col("SMA_Signal"), Col("Close"), SMACol(args.sma_window))

\* The rolling SMA of the comparison is undefined on its first day, where
\* the signal is 0, and the close is above it later.
C5_Witness ==
    /\ op = "compare_ema_vs_sma"
    /\ N = MaxLen
    /\ IsNaN(frame[SMACol(args.sma_window)][1])
    /\ frame[Col("SMA_Signal")][1] = R(0)
    /\ frame[Col("SMA_Signal")][N] = R(1)
    /\ frame[Col("EMA_Signal")][N] = R(1)

\* C6: no MACD flag is set at the first index; at every later index
\* buy holds exactly when line > signal there and line <= signal the day
\* before, sell when line < signal and line >= signal the day before,
\* zero-cross-up when line > 0 and line <= 0 the day before,
\* zero-cross-down when line < 0 and line >= 0 the day before.
C6_MacdFlags ==
    op = "detect_macd_signals" =>
        LET line == frame[Col("MACD")]
            sigl == frame[Col("MACD_Signal")]
            buy  == frame[Col("MACD_Buy_Signal")]
            sell == frame[Col("MACD_Sell_Signal")]
            up   == frame[Col("MACD_Zero_Cross_Up")]
            down == frame[Col("MACD_Zero_Cross_Down")]
        IN  /\ N >= 1 => ~buy[1] /\ ~sell[1] /\ ~up[1] /\ ~down[1]
            /\ \A i \in 2..N :
                  /\ buy[i]  <=> (RGt(line[i], sigl[i]) /\ RLe(line[i - 1], sigl[i - 1]))
                  /\ sell[i] <=> (RLt(line[i], sigl[i]) /\ RGe(line[i - 1], sigl[i - 1]))
                  /\ up[i]   <=> (RGt(line[i], R(0)) /\ RLe(line[i - 1], R(0)))
                  /\ down[i] <=> (RLt(line[i], R(0)) /\ RGe(line[i - 1], R(0)))

\* The line starts above zero and above its signal line, and crosses
\* below both on the second day.
C6_Witness ==
    /\ op = "detect_macd_signals"
    /\ N >= 2
    /\ RGt(frame[Col("MACD")][1], R(0))
    /\ RGt(frame[Col("MACD")][1], frame[Col("MACD_Signal")][1])
    /\ frame[Col("MACD_Sell_Signal")][2]
    /\ frame[Col("MACD_Zero_Cross_Down")][2]

\* The defined values of s are all the same, and there is one.
AllIdentical(s) ==
    /\ Defined(s) # {}
    /\ \A i \in Defined(s), j \in Defined(s) : s[i] = s[j]

\* C7: in analyze_ema_performance, when all defined strategy returns are
\* identical (also when there is just one) strategy_sharpe is 0 and not
\* undefined, and when all defined returns are identical buy_hold_sharpe
\* is 0.
C7_SharpeZeroOnIdenticalReturns ==
    (op = "analyze_ema_performance" /\ IsReport) =>
        /\ AllIdentical(frame[Col("EMA_Strategy_Returns")])
              => SharpeIsZero(ret.value.strategy_sharpe)
        /\ AllIdentical(frame[Col("Returns")])
              => SharpeIsZero(ret.value.buy_hold_sharpe)

\* The strategy returns of the call that ran last.
LastStrategyReturns ==
    IF op = "analyze_sma_performance" THEN frame[Col("Strategy_Returns")]
    ELSE frame[Col("EMA_Strategy_Returns")]

\* C8: win_rate is the number of defined strategy returns above 0 over the
\* number of defined strategy returns other than 0; the undefined return
\* of the first index counts in neither.
C8_WinRateOverDefinedReturns ==
    (/\ op \in {"analyze_sma_performance", "analyze_ema_performance"}
     /\ IsReport
     /\ NonZeroDefinedOnly(LastStrategyReturns) > 0) =>
        ret.value.win_rate = Frac(Wins(LastStrategyReturns),
                                  NonZeroDefinedOnly(LastStrategyReturns))

\* Two calls end alike for the win rate: both raise the same exception,
\* or both report a win rate of 0.
SameZeroOutcome(a, b) ==
    /\ a.kind = b.kind
    /\ a.kind = "raise" => a.value = b.value
    /\ a.kind = "report" => a.value.win_rate = R(0) /\ b.value.win_rate = R(0)

\* C9: on a table and a pair of lines for which no defined strategy return
\* is other than 0, analyze_sma_performance and analyze_ema_performance
\* end alike: both report win_rate 0 or both raise.
C9_UniformZeroDenominator ==
    /\ (op = "analyze_sma_performance" /\ NonZeroDefinedOnly(LastStrategyReturns) = 0)
          => SameZeroOutcome(ret, analyze_ema_performance(data, args.short, args.long))
    /\ (op = "analyze_ema_performance" /\ NonZeroDefinedOnly(LastStrategyReturns) = 0)
          => SameZeroOutcome(analyze_sma_performance(data, args.short, args.long), ret)

\* Prices move but the signal is 0 throughout, so that every defined
\* strategy return is 0, and analyze_sma_performance reports.
C9_Witness ==
    /\ op = "analyze_sma_performance"
    /\ N = MaxLen
    /\ Close[1] # Close[N]
    /\ NonZeroDefinedOnly(LastStrategyReturns) = 0
    /\ IsReport
    /\ ret.value.win_rate = R(0)

EngineOps ==
    {"calculate_multiple_sma", "calculate_multiple_ema", "calculate_macd",
     "detect_crossover_signals", "detect_ema_crossover_signals",
     "detect_macd_signals", "analyze_sma_performance",
     "analyze_ema_performance", "compare_ema_vs_sma"}

\* C10: every engine operation leaves the table it is given with exactly
\* the columns and values it had before the call.
C10_InputTableUnchanged ==
    [][op' \in EngineOps => data' = data]_vars

CrossoverOps ==
    {"detect_crossover_signals", "detect_ema_crossover_signals",
     "analyze_sma_performance", "analyze_ema_performance"}
AnalyzeOps == {"analyze_sma_performance", "analyze_ema_performance"}
WritesEMANames ==
    op \in {"detect_ema_crossover_signals", "analyze_ema_performance"}

\* The columns the operation that returned last has written.
SignalOut == IF WritesEMANames THEN Col("EMA_Signal") ELSE Col("Signal")
GoldenOut ==
    IF WritesEMANames THEN Col("EMA_Golden_Cross") ELSE Col("Golden_Cross")
DeathOut ==
    IF WritesEMANames THEN Col("EMA_Death_Cross") ELSE Col("Death_Cross")
StrategyOut ==
    IF WritesEMANames THEN Col("EMA_Strategy_Returns")
    ELSE Col("Strategy_Returns")

\* Both lines of the call are columns written by calculate_multiple_sma,
\* or both are columns written by calculate_multiple_ema, over the Close
\* series of the table.
BothFromOneFamily ==
    /\ pc = "with_indicators"
    /\ args.short[1] = args.long[1]
    /\ args.short[1] \in {"SMA_", "EMA_"}

\* C11: when the short and the long line are both simple moving averages,
\* or both exponential moving averages, of the same Close series, for any
\* two windows, both lines equal the first price at the first index and the
\* signal there is 0; the golden and death flags are false at the first two
\* indices; and the strategy return at the second index is 0.
C11_FirstSignalIsZero ==
    (op \in CrossoverOps /\ BothFromOneFamily /\ N >= 1) =>
        /\ frame[args.short][1] = Close[1]
        /\ frame[args.long][1] = Close[1]
        /\ frame[SignalOut][1] = R(0)
        /\ \A i \in 1..(IF N < 2 THEN N ELSE 2) :
              /\ frame[GoldenOut][i] = FALSE
              /\ frame[DeathOut][i] = FALSE
        /\ (op \in AnalyzeOps /\ N >= 2) => frame[StrategyOut][2] = R(0)

\* Two moving averages of different windows over prices that fall and then
\* rise: the price moves at the second index and the lines are apart there,
\* yet the strategy return is 0; the golden flag is raised at the last
\* index only.
C11_Witness ==
    /\ op = "analyze_sma_performance"
    /\ BothFromOneFamily
    /\ N = MaxLen
    /\ frame[Col("Returns")][2] # R(0)
    /\ frame[SignalOut][2] # R(0)
    /\ frame[StrategyOut][2] = R(0)
    /\ frame[GoldenOut][N] = TRUE

====
